---- MODULE Spec2Model ----
(***************************************************************************)
(* CalDav client (src/src/app/caldav.ts): six operations that each build   *)
(* one HTTP request, hand it to the `request` transport and settle a       *)
(* promise from the transport's callback (error, response, body).          *)
(***************************************************************************)
EXTENDS Integers, Sequences, FiniteSets, TLC

(***************************************************************************)
(* Bounds                                                                  *)
(***************************************************************************)
\* largest number of <response> elements in a multistatus body
MaxResources == 2

(***************************************************************************)
(* JavaScript values                                                       *)
(***************************************************************************)
Undef == [t |-> "undefined"]
Null == [t |-> "null"]
Str(s) == [t |-> "string", s |-> s]
Num(n) == [t |-> "number", n |-> n]
Arr(items) == [t |-> "array", items |-> items]
NoProps == [k \in {} |-> Undef]

\* ToBoolean, as applied by `if (error)`, `if (etag)`, `if (tag)`,
\* `if (response.statusCode)`
Truthy(v) ==
    CASE v.t = "undefined" -> FALSE
      [] v.t = "null" -> FALSE
      [] v.t = "string" -> v.s # ""
      [] v.t = "number" -> v.n # 0
      [] OTHER -> TRUE

\* property read obj.key: an absent property reads as undefined
Get(obj, key) == IF key \in DOMAIN obj THEN obj[key] ELSE Undef

(***************************************************************************)
(* Inputs                                                                  *)
(***************************************************************************)
Origin == "https://cal.example"
URLs ==
    { [origin |-> Origin, path |-> <<"dav", "alice", "">>],
      [origin |-> Origin, path |-> <<"dav", "alice", "work", "">>] }
Users == {"alice"}
Passwords == {"secret"}
Proxies == {Undef, Str("http://proxy:3128")}

\* resource paths handed to put/delete: relative to the base, or rooted
ResourcePaths ==
    { [rooted |-> FALSE, path |-> <<"event1.ics">>],
      [rooted |-> TRUE, path |-> <<"other", "event2.ics">>] }
Events == {"BEGIN:VCALENDAR"}
Fields == {"UID"}
Ids == {"id-1", "id-2"}
\* the optional etag argument of put, also the etag argument of delete
EtagArgs == {Undef, Str(""), Str("\"abc123\""), Str("\"stale\"")}

\* what the transport can deliver
TransportErrors ==
    { [t |-> "error", code |-> "ECONNREFUSED"],
      [t |-> "error", code |-> "ETIMEDOUT"] }
StatusCodes ==
    {Undef} \cup {Num(n) : n \in {199, 200, 201, 204, 299, 300, 412, 500}}
EtagHeaders ==
    { NoProps,
      [etag |-> Str("")],
      [etag |-> Str("\"abc123\"")],
      [etag |-> Arr(<<"\"a\"", "\"b\"">>)] }
Responses == [statusCode : StatusCodes, headers : EtagHeaders]

Hrefs == {"/dav/alice/", "/dav/alice/work/"}
ResourceStatuses == {"HTTP/1.1 200 OK", "HTTP/1.1 404 Not Found"}
Resources == [href : Hrefs, status : ResourceStatuses]
ResourceLists == UNION { [1..n -> Resources] : n \in 0..MaxResources }
\* response bodies: an empty body, a document whose root is not
\* multistatus, and multistatus documents listing resources in server order
Bodies ==
    { [t |-> "string", root |-> "", resources |-> <<>>],
      [t |-> "string", root |-> "html", resources |-> <<>>] }
    \cup { [t |-> "string", root |-> "multistatus", resources |-> rs] :
              rs \in ResourceLists }
\* the callback arguments: an error alone, or a response with its body
Deliveries ==
    [error : TransportErrors, response : {Undef}, body : {Undef}]
    \cup [error : {Null}, response : Responses, body : Bodies]

(***************************************************************************)
(* State                                                                   *)
(***************************************************************************)
VARIABLES
    this,        \* the CalDav instance: url, user, password, proxy
    pc,          \* "idle", "waiting" (request in flight), "done" (callback ran)
    call,        \* the operation in progress and its arguments
    requests,    \* the requests handed to the transport by the current call
    delivered,   \* the (error, response, body) the transport called back with
    promise,     \* the promise returned by the current call
    uncaught,    \* exception thrown out of the transport callback
    inspected,   \* the callback dereferenced body / response
    decoded      \* the callback ran the XML decoder

vars == <<this, pc, call, requests, delivered, promise, uncaught, inspected, decoded>>

Pending == [state |-> "pending", value |-> Undef]
NoCall == [op |-> "none"]
NoDelivery == [error |-> Null, response |-> Undef, body |-> Undef]

\* resolve / reject: only the first settlement of a promise takes effect
Settle(p, state, value) ==
    IF p.state = "pending" THEN [state |-> state, value |-> value] ELSE p

Init ==
    /\ this \in [url : URLs, user : Users, password : Passwords, proxy : Proxies]
    /\ pc = "idle"
    /\ call = NoCall
    /\ requests = <<>>
    /\ delivered = NoDelivery
    /\ promise = Pending
    /\ uncaught = "none"
    /\ inspected = FALSE
    /\ decoded = FALSE

(***************************************************************************)
(* Collaborators                                                           *)
(***************************************************************************)
\* new URL(ics, base): a rooted path replaces the base's path, a relative
\* one replaces the base's last segment
URLJoin(ics, base) ==
    IF ics.rooted
    THEN [origin |-> base.origin, path |-> ics.path]
    ELSE [origin |-> base.origin,
          path |-> SubSeq(base.path, 1, Len(base.path) - 1) \o ics.path]

\* one decoded <response> element
ResponseNode(r) == [t |-> "object", href |-> r.href, status |-> r.status]

\* XML decoder: element names become keys, a lone child element becomes an
\* object and repeated sibling elements become a sequence
xmlToJson(body) ==
    CASE body.root = "" -> [t |-> "object"]
      [] body.root = "multistatus" ->
           [t |-> "object",
            multistatus |->
              IF Len(body.resources) = 0 THEN [t |-> "object"]
              ELSE IF Len(body.resources) = 1
              THEN [t |-> "object", response |-> ResponseNode(body.resources[1])]
              ELSE [t |-> "object",
                    response |-> Arr([i \in 1..Len(body.resources) |->
                                        ResponseNode(body.resources[i])])]]
      [] OTHER -> [t |-> "object", html |-> [t |-> "object"]]

(***************************************************************************)
(* Request builders                                                        *)
(***************************************************************************)
PropfindBody(props) == [root |-> "propfind", props |-> props]

\* request(url, options, callback).auth(user, password): hands one request
\* to the transport and leaves the new promise pending
Issue(c, req) ==
    /\ pc' = "waiting"
    /\ call' = c
    /\ requests' = <<req>>
    /\ delivered' = NoDelivery
    /\ promise' = Pending
    /\ uncaught' = "none"
    /\ inspected' = FALSE
    /\ decoded' = FALSE
    /\ UNCHANGED this

getCurrentUserPrincipal ==
    /\ pc \in {"idle", "done"}
    /\ \E url \in URLs, user \in Users, password \in Passwords, proxy \in Proxies :
        Issue([op |-> "getCurrentUserPrincipal", url |-> url],
              [method |-> "PROPFIND",
               url |-> url,
               headers |-> [Depth |-> Str("0"), Prefer |-> Str("return-minimal")],
               proxy |-> proxy,
               body |-> PropfindBody({"current-user-principal"}),
               auth |-> <<user, password>>])

getCalendarHomeSet ==
    /\ pc \in {"idle", "done"}
    /\ \E url \in URLs, user \in Users, password \in Passwords, proxy \in Proxies :
        Issue([op |-> "getCalendarHomeSet", url |-> url],
              [method |-> "PROPFIND",
               url |-> url,
               headers |-> [Depth |-> Str("0"), Prefer |-> Str("return-minimal")],
               proxy |-> proxy,
               body |-> PropfindBody({"calendar-home-set"}),
               auth |-> <<user, password>>])

getCalendarComponentSet ==
    /\ pc \in {"idle", "done"}
    /\ \E url \in URLs, user \in Users, password \in Passwords, proxy \in Proxies :
        Issue([op |-> "getCalendarComponentSet", url |-> url],
              [method |-> "PROPFIND",
               url |-> url,
               headers |-> [Depth |-> Str("1"), Prefer |-> Str("return-minimal")],
               proxy |-> proxy,
               body |-> PropfindBody({"resourcetype", "displayname", "getctag",
                                      "supported-calendar-component-set"}),
               auth |-> <<user, password>>])

search ==
    /\ pc \in {"idle", "done"}
    /\ \E field \in Fields, id \in Ids :
        Issue([op |-> "search", field |-> field, id |-> id],
              [method |-> "REPORT",
               url |-> this.url,
               headers |-> [Depth |-> Str("1"), Prefer |-> Str("return-minimal")],
               proxy |-> this.proxy,
               body |-> [root |-> "calendar-query", field |-> field, id |-> id],
               auth |-> <<this.user, this.password>>])

\* options.headers of put: set only when the etag argument is truthy
putHeaders(etag) ==
    IF Truthy(etag) THEN [IfMatch |-> etag] ELSE NoProps

put ==
    /\ pc \in {"idle", "done"}
    /\ \E ics \in ResourcePaths, event \in Events, etag \in EtagArgs :
        Issue([op |-> "put", ics |-> ics, event |-> event, etag |-> etag],
              [method |-> "PUT",
               url |-> URLJoin(ics, this.url),
               headers |-> putHeaders(etag),
               proxy |-> this.proxy,
               body |-> event,
               auth |-> <<this.user, this.password>>])

\* options.headers of delete: always an If-Match entry holding the argument
deleteHeaders(etag) == [IfMatch |-> etag]

delete ==
    /\ pc \in {"idle", "done"}
    /\ \E ics \in ResourcePaths, etag \in EtagArgs :
        Issue([op |-> "delete", ics |-> ics, etag |-> etag],
              [method |-> "DELETE",
               url |-> URLJoin(ics, this.url),
               headers |-> deleteHeaders(etag),
               proxy |-> this.proxy,
               body |-> Undef,
               auth |-> <<this.user, this.password>>])

(***************************************************************************)
(* Transport callbacks                                                     *)
(***************************************************************************)
\* Outcome of a callback run: the promise afterwards, the exception that
\* escaped the callback, and what the callback touched
Outcome(p, u, i, d) ==
    [promise |-> p, uncaught |-> u, inspected |-> i, decoded |-> d]

\* `if (error) { reject(error); }` : no return, the callback carries on
rejectOnError(p, error) ==
    IF Truthy(error) THEN Settle(p, "rejected", error) ELSE p

\* Variant: the callback rejects a status outside [200,300), as put does
multistatusCallbackCheckingStatus(p, error, response, body) ==
    LET p1 == rejectOnError(p, error) IN
    IF body.t = "undefined"
    THEN Outcome(p1, "TypeError", TRUE, FALSE)
    ELSE IF response.statusCode.t = "number"
            /\ response.statusCode.n >= 200 /\ response.statusCode.n < 300
    THEN Outcome(Settle(p1, "resolved", Get(xmlToJson(body), "multistatus")),
                 "none", TRUE, TRUE)
    ELSE Outcome(Settle(p1, "rejected", Str("error")), "none", TRUE, TRUE)

\* Variant: the callback resolves with the whole decoded tree
multistatusCallbackWholeTree(p, error, response, body) ==
    LET p1 == rejectOnError(p, error) IN
    IF body.t = "undefined"
    THEN Outcome(p1, "TypeError", TRUE, FALSE)
    ELSE Outcome(Settle(p1, "resolved", xmlToJson(body)), "none", TRUE, TRUE)

\* Variant: the callback special-cases an empty body and skips the decoder
multistatusCallbackSkipEmpty(p, error, response, body) ==
    LET p1 == rejectOnError(p, error) IN
    IF body.t = "undefined"
    THEN Outcome(p1, "TypeError", TRUE, FALSE)
    ELSE IF body.root = ""
    THEN Outcome(Settle(p1, "resolved", Undef), "none", TRUE, FALSE)
    ELSE Outcome(Settle(p1, "resolved", Get(xmlToJson(body), "multistatus")),
                 "none", TRUE, TRUE)

\* The callback shared by the PROPFIND / REPORT / DELETE operations:
\* body.toString() throws a TypeError on an absent body, otherwise the
\* body is decoded and the promise resolved with the multistatus node
multistatusCallback(p, error, response, body) ==
    LET p1 == rejectOnError(p, error) IN
    IF body.t = "undefined"
    THEN Outcome(p1, "TypeError", TRUE, FALSE)
    ELSE Outcome(Settle(p1, "resolved", Get(xmlToJson(body), "multistatus")),
                 "none", TRUE, TRUE)

\* 200 <= statusCode < 300
isSuccess(statusCode) == statusCode.n >= 200 /\ statusCode.n < 300

\* The callback of put
putCallback(p, error, response, body) ==
    LET p1 == rejectOnError(p, error) IN
    IF body.t = "undefined"
    THEN Outcome(p1, "TypeError", TRUE, FALSE)
    ELSE IF Truthy(response.statusCode) /\ isSuccess(response.statusCode)
    THEN LET tag == Get(response.headers, "etag") IN
         IF Truthy(tag) /\ tag.t = "string"
         THEN Outcome(Settle(p1, "resolved", tag), "none", TRUE, FALSE)
         ELSE Outcome(p1, "none", TRUE, FALSE)
    ELSE Outcome(Settle(p1, "rejected", Str("error")), "none", TRUE, FALSE)

\* Variant: a transport error makes the operation send its request again
CompleteWithRetry(d, out) ==
    /\ pc' = "done"
    /\ delivered' = d
    /\ promise' = out.promise
    /\ uncaught' = out.uncaught
    /\ inspected' = out.inspected
    /\ decoded' = out.decoded
    /\ requests' = IF Truthy(d.error) THEN Append(requests, requests[1]) ELSE requests
    /\ UNCHANGED <<this, call>>

\* the transport calls back once with d; out is what the callback did
Complete(d, out) ==
    /\ pc' = "done"
    /\ delivered' = d
    /\ promise' = out.promise
    /\ uncaught' = out.uncaught
    /\ inspected' = out.inspected
    /\ decoded' = out.decoded
    /\ UNCHANGED <<this, call, requests>>

getCurrentUserPrincipalCallback ==
    /\ pc = "waiting" /\ call.op = "getCurrentUserPrincipal"
    /\ \E d \in Deliveries :
          Complete(d, multistatusCallback(promise, d.error, d.response, d.body))

getCalendarHomeSetCallback ==
    /\ pc = "waiting" /\ call.op = "getCalendarHomeSet"
    /\ \E d \in Deliveries :
          Complete(d, multistatusCallback(promise, d.error, d.response, d.body))

getCalendarComponentSetCallback ==
    /\ pc = "waiting" /\ call.op = "getCalendarComponentSet"
    /\ \E d \in Deliveries :
          Complete(d, multistatusCallback(promise, d.error, d.response, d.body))

searchCallback ==
    /\ pc = "waiting" /\ call.op = "search"
    /\ \E d \in Deliveries :
          Complete(d, multistatusCallback(promise, d.error, d.response, d.body))

deleteCallback ==
    /\ pc = "waiting" /\ call.op = "delete"
    /\ \E d \in Deliveries :
          Complete(d, multistatusCallback(promise, d.error, d.response, d.body))

putCallbackRun ==
    /\ pc = "waiting" /\ call.op = "put"
    /\ \E d \in Deliveries :
          Complete(d, putCallback(promise, d.error, d.response, d.body))

Next ==
    \/ getCurrentUserPrincipal
    \/ getCalendarHomeSet
    \/ getCalendarComponentSet
    \/ search
    \/ put
    \/ delete
    \/ getCurrentUserPrincipalCallback
    \/ getCalendarHomeSetCallback
    \/ getCalendarComponentSetCallback
    \/ searchCallback
    \/ putCallbackRun
    \/ deleteCallback

Spec == Init /\ [][Next]_vars

TypeOK ==
    /\ pc \in {"idle", "waiting", "done"}
    /\ promise.state \in {"pending", "resolved", "rejected"}
    /\ uncaught \in {"none", "TypeError"}
    /\ Len(requests) <= 1

(***************************************************************************)
(* Properties                                                              *)
(***************************************************************************)
Req == requests[1]
Done == pc = "done"
GotError == Done /\ Truthy(delivered.error)
GotResponse == Done /\ delivered.error = Null
DiscoveryOps ==
    {"getCurrentUserPrincipal", "getCalendarHomeSet", "getCalendarComponentSet"}
MultistatusOps == DiscoveryOps \cup {"search"}
\* the response status is a number in [200,300)
StatusIn2xx ==
    /\ delivered.response.statusCode.t = "number"
    /\ delivered.response.statusCode.n >= 200
    /\ delivered.response.statusCode.n < 300
HasEtagHeader == "etag" \in DOMAIN delivered.response.headers
Resolved == promise.state = "resolved"
Rejected == promise.state = "rejected"

\* C1: once the transport has called back, the promise returned by put is
\* settled; a 2xx response without a string ETag header leaves it resolved.
C1_PutAlwaysSettles ==
    (Done /\ call.op = "put") =>
        /\ promise.state # "pending"
        /\ (GotResponse /\ StatusIn2xx
              /\ Get(delivered.response.headers, "etag").t # "string") => Resolved

\* C2: on a response, put resolves exactly when the status is in [200,300)
\* and the response carries an ETag header, and the resolved value is that
\* header's value.
C2_PutResolvesIffEtag ==
    (GotResponse /\ call.op = "put") =>
        /\ Resolved <=> (StatusIn2xx /\ HasEtagHeader)
        /\ Resolved => promise.value = Get(delivered.response.headers, "etag")

\* C3: on a response whose status is outside [200,300), put rejects with an
\* error value that carries the response's status code.
C3_PutRejectCarriesStatus ==
    (GotResponse /\ call.op = "put" /\ ~StatusIn2xx) =>
        /\ Rejected
        /\ Get(promise.value, "status") = delivered.response.statusCode

\* C4: the PUT request has an If-Match header exactly when an etag argument
\* was supplied (the empty string included), and its value is the argument.
C4_IfMatchIffEtagSupplied ==
    (pc # "idle" /\ call.op = "put") =>
        /\ Len(requests) = 1
        /\ ("IfMatch" \in DOMAIN Req.headers) <=> (call.etag # Undef)
        /\ (call.etag # Undef) => Get(Req.headers, "IfMatch") = call.etag

\* C5: a delete with an etag sends one DELETE whose If-Match is the etag; a
\* delete whose etag is undefined or empty sends no request and fails.
C5_DeleteAlwaysConditional ==
    (pc # "idle" /\ call.op = "delete") =>
        IF Truthy(call.etag)
        THEN Len(requests) = 1 /\ Get(Req.headers, "IfMatch") = call.etag
        ELSE requests = <<>> /\ Rejected

\* C6: on a transport error the promise is rejected with that error, one
\* request was issued, the absent response and body are neither inspected
\* nor decoded, and nothing is thrown after the rejection.
C6_TransportErrorOnlyRejects ==
    GotError =>
        /\ promise = [state |-> "rejected", value |-> delivered.error]
        /\ Len(requests) = 1
        /\ ~inspected
        /\ ~decoded
        /\ uncaught = "none"

\* C7: on any response, the PROPFIND / REPORT operations resolve with the
\* multistatus node of the decoded body, whatever the status code and the
\* per-resource statuses, and throw nothing.
C7_MultistatusOpsAlwaysResolve ==
    (GotResponse /\ call.op \in MultistatusOps) =>
        /\ Resolved
        /\ promise.value = Get(xmlToJson(delivered.body), "multistatus")
        /\ uncaught = "none"

C7_Witness ==
    /\ GotResponse /\ call.op = "search"
    /\ delivered.response.statusCode = Num(500)
    /\ delivered.body.root = "multistatus"
    /\ Len(delivered.body.resources) = 2
    /\ delivered.body.resources[2].status = "HTTP/1.1 404 Not Found"
    /\ Resolved /\ promise.value # Undef

\* the <response> entries of the body delivered to a discovery operation
ServerResources == delivered.body.resources
DiscoveryReply ==
    /\ GotResponse /\ call.op \in DiscoveryOps
    /\ delivered.body.root = "multistatus"
    /\ Len(ServerResources) >= 1
ReturnedResponse == Get(promise.value, "response")
IsSequenceInServerOrder(r) ==
    /\ r.t = "array"
    /\ Len(r.items) = Len(ServerResources)
    /\ \A i \in 1..Len(ServerResources) : r.items[i].href = ServerResources[i].href

\* C8 (as stated): the response field of a discovery result is always a
\* sequence, of one element for a one-resource reply, in server order.
C8_ResponseAlwaysSequence ==
    DiscoveryReply => (Resolved /\ IsSequenceInServerOrder(ReturnedResponse))

\* C8 (amended): the response field of a discovery result is the bare
\* Response carrying the server's href when the reply has one resource,
\* and the sequence of the N responses in server order when it has N > 1.
C8_ResponseAsDecoded ==
    DiscoveryReply =>
        /\ Resolved
        /\ Len(ServerResources) = 1 =>
              /\ ReturnedResponse.t = "object"
              /\ Get(ReturnedResponse, "href") = ServerResources[1].href
        /\ Len(ServerResources) > 1 => IsSequenceInServerOrder(ReturnedResponse)

C8_Witness ==
    /\ DiscoveryReply /\ call.op = "getCurrentUserPrincipal"
    /\ Len(ServerResources) = 1
    /\ Resolved
    /\ ReturnedResponse.t = "object"
    /\ ReturnedResponse.href = "/dav/alice/"

\* C9: on any response, delete runs the decoder and resolves with the
\* multistatus node of the decoded body, whatever the status and the body
\* (a 204 with an empty body included), and throws nothing.
C9_DeleteAlwaysResolves ==
    (GotResponse /\ call.op = "delete") =>
        /\ Resolved
        /\ decoded
        /\ promise.value = Get(xmlToJson(delivered.body), "multistatus")
        /\ uncaught = "none"

C9_Witness ==
    /\ GotResponse /\ call.op = "delete"
    /\ delivered.response.statusCode = Num(204)
    /\ delivered.body.root = ""
    /\ Resolved /\ decoded /\ uncaught = "none"

IsSuffix(suffix, seq) ==
    /\ Len(suffix) <= Len(seq)
    /\ SubSeq(seq, Len(seq) - Len(suffix) + 1, Len(seq)) = suffix
NoDepthNoPrefer == DOMAIN Req.headers \cap {"Depth", "Prefer"} = {}
DepthAndPrefer(depth) ==
    /\ Get(Req.headers, "Depth") = Str(depth)
    /\ Get(Req.headers, "Prefer") = Str("return-minimal")
JoinedOntoBase ==
    /\ Req.url.origin = this.url.origin
    /\ IsSuffix(call.ics.path, Req.url.path)
    /\ call.ics.rooted => Req.url.path = call.ics.path
    /\ ~call.ics.rooted => Len(Req.url.path) = Len(this.url.path)

\* C10: from the call until after the callback, exactly one request has
\* been issued, with the method, Depth, Prefer and target of the operation.
C10_OneRequestPerCall ==
    (pc # "idle") =>
        /\ Len(requests) = 1
        /\ CASE call.op \in {"getCurrentUserPrincipal", "getCalendarHomeSet"} ->
                   Req.method = "PROPFIND" /\ DepthAndPrefer("0")
             [] call.op = "getCalendarComponentSet" ->
                   Req.method = "PROPFIND" /\ DepthAndPrefer("1")
             [] call.op = "search" ->
                   Req.method = "REPORT" /\ DepthAndPrefer("1") /\ Req.url = this.url
             [] call.op = "put" ->
                   Req.method = "PUT" /\ NoDepthNoPrefer /\ JoinedOntoBase
             [] call.op = "delete" ->
                   Req.method = "DELETE" /\ NoDepthNoPrefer /\ JoinedOntoBase

C10_Witness ==
    /\ GotError /\ call.op = "put"
    /\ ~call.ics.rooted
    /\ Len(requests) = 1 /\ Req.method = "PUT"
====
